---------------------------- MODULE Spec2Model ----------------------------
(***************************************************************************)
(* A model of efiextract.c: main() reads the 64-byte EFI zboot header of   *)
(* an input file, checks its three magic numbers, converts the three       *)
(* little-endian 32-bit fields to host order, prints them and, when an     *)
(* output path was given, copy_data() copies the payload to it in chunks   *)
(* of 16384 bytes.                                                         *)
(*                                                                         *)
(* Files are sequences of bytes (0..255).  A uint32_t object is held as    *)
(* the number the host reads from its four bytes of storage, so the host's *)
(* byte order is part of the state.  The model checker's integers are      *)
(* 32-bit signed, so the header words drawn in Init keep their first and   *)
(* last byte below 128 (every value and every byte-swapped value is then   *)
(* below 2^31, where uint32_t, long and size_t agree on every ABI).        *)
(***************************************************************************)
EXTENDS Integers, Sequences, FiniteSets

(***************************************************************************)
(* Program constants                                                       *)
(***************************************************************************)
\* sizeof(buf) in copy_data
BUFSZ == 16384

\* sizeof(struct linux_efi_zboot_header): 2+2+4+4+4+8+32+4+4, no padding
HeaderSize == 64

\* EFI_PE_MSDOS_MAGIC "MZ"
EFI_PE_MSDOS_MAGIC == <<77, 90>>

\* the literal "zimg" of main's second memcmp
ZIMG_MAGIC == <<122, 105, 109, 103>>

\* EFI_PE_LINUX_MAGIC "\xcd\x23\x82\x81"
EFI_PE_LINUX_MAGIC == <<205, 35, 130, 129>>

(***************************************************************************)
(* Bounds of the model                                                     *)
(***************************************************************************)
\* payload sizes and file bodies reach MaxChunks whole chunks and a bit more
MaxChunks == 2

MIN(a, b) == IF a < b THEN a ELSE b

(***************************************************************************)
(* 32-bit words in storage                                                 *)
(***************************************************************************)
\* the value of four bytes read least-significant byte first
LeDecode(b) == b[1] + (256 * b[2]) + (65536 * b[3]) + (16777216 * b[4])

\* the value of four bytes read most-significant byte first
BeDecode(b) == b[4] + (256 * b[3]) + (65536 * b[2]) + (16777216 * b[1])

\* what the host reads from a uint32_t object whose storage holds bytes b
NativeU32(b, big) == IF big THEN BeDecode(b) ELSE LeDecode(b)

\* bswap_32 of <byteswap.h>: the four bytes of the value in reverse order
bswap32(x) ==
    ((x % 256) * 16777216)
    + (((x \div 256) % 256) * 65536)
    + (((x \div 65536) % 256) * 256)
    + ((x \div 16777216) % 256)

\* a host that leaves the value alone whatever its byte order
le32toh_identity(x, big) == x

\* le32toh of <endian.h>: the identity on a little-endian host, a byte swap
\* on a big-endian one
le32toh(x, big) == IF big THEN bswap32(x) ELSE x

\* fixendian(ptr): *ptr = le32toh(*ptr)
fixendian(x, big) == le32toh(x, big)

(***************************************************************************)
(* Input files                                                             *)
(***************************************************************************)
Zeros(n) == [i \in 1..n |-> 0]

\* encode_le: the four bytes of x, least significant first
LeBytes(x) ==
    << x % 256, (x \div 256) % 256, (x \div 65536) % 256, (x \div 16777216) % 256 >>

\* compression_type[32] holding "gzip" and NUL padding
GzipLabel == <<103, 122, 105, 112>> \o Zeros(28)

\* the 64 bytes of a zboot header as zboot-header.S lays them out
MkHeader(msdos, zimg, off4, size4, lmagic, pe4) ==
    msdos \o Zeros(2) \o zimg \o off4 \o size4 \o Zeros(8) \o GzipLabel
          \o lmagic \o pe4

\* the bytes that follow the header in every input file: byte i is i % 251,
\* whose period divides neither the chunk size nor the header size
MaxBody == (MaxChunks * BUFSZ) + 50

Body == [i \in 1..MaxBody |-> i % 251]

OffsetVals == {0, HeaderSize, HeaderSize + 5, 16777216}

SizeVals == {0, 4, 100} \cup {(k * BUFSZ) + d : k \in 1..MaxChunks, d \in {0, 1}}

BodyLens == {0, 5} \cup {(k * BUFSZ) + 50 : k \in 1..MaxChunks}

PeWords == {<<0, 0, 0, 0>>, <<120, 86, 52, 18>>}

\* the positions (from 1) of the ten magic bytes in the header
MagicPositions == {1, 2, 5, 6, 7, 8, 57, 58, 59, 60}

\* what is added (mod 256) to a magic byte to alter it: +1, -2 ("MZ" to "MX")
Alterations == {1, 254}

GoodHeaders ==
    { MkHeader(EFI_PE_MSDOS_MAGIC, ZIMG_MAGIC, LeBytes(o), LeBytes(s),
               EFI_PE_LINUX_MAGIC, pe) :
        o \in OffsetVals, s \in SizeVals, pe \in PeWords }

\* the header of the end-to-end scenario: offset 64, size 4
ScenarioHeader ==
    MkHeader(EFI_PE_MSDOS_MAGIC, ZIMG_MAGIC, LeBytes(HeaderSize), LeBytes(4),
             EFI_PE_LINUX_MAGIC, <<0, 0, 0, 0>>)

BadMagicHeaders ==
    { [ScenarioHeader EXCEPT ![p] = (@ + a) % 256] :
        p \in MagicPositions, a \in Alterations }

TruncatedLens == {0, 1, 59, 60, 63}

\* an input file: the bytes hdr followed by the first `body` bytes of Body
Images ==
    { [hdr |-> h, body |-> b] : h \in GoodHeaders, b \in BodyLens }
    \cup { [hdr |-> h, body |-> 5] : h \in BadMagicHeaders }
    \cup { [hdr |-> SubSeq(ScenarioHeader, 1, n), body |-> 0] : n \in TruncatedLens }

FileBytes(f) == f.hdr \o SubSeq(Body, 1, f.body)

FileLen(f) == Len(f.hdr) + f.body

(***************************************************************************)
(* stdio as the program uses it                                            *)
(***************************************************************************)
\* an fread that wants a byte more than the item before it reports it read
FreadOk_strict(avail, n) == n > 0 /\ avail > n

\* fread(ptr, n, 1, f) returns 1: one whole item of n bytes was there to read
\* (an item of size 0 is never read: fread returns 0)
FreadOk(avail, n) == n > 0 /\ avail >= n

\* the bytes fread(ptr, n, 1, f) stores at ptr: the n bytes at the position,
\* or as many as are left before the end of the file
FreadBytes(data, pos, n) == SubSeq(data, pos + 1, MIN(pos + n, Len(data)))

\* bytes left between a position and the end of the file
Avail(data, pos) == IF pos < Len(data) THEN Len(data) - pos ELSE 0

\* how many bytes of the item a failed fwrite(ptr, n, 1, f) may have put in
\* the file before the error: none, or all but the last
PartialCounts(n) == {0, n - 1}

\* printf's "%.*s" with precision 32: the bytes before the first NUL, at most
\* the whole field
Label(c) ==
    LET nuls == {i \in 1..Len(c) : c[i] = 0}
        n == IF nuls = {} THEN Len(c)
             ELSE (CHOOSE i \in nuls : \A j \in nuls : i <= j) - 1
    IN SubSeq(c, 1, n)

(***************************************************************************)
(* State                                                                   *)
(***************************************************************************)
VARIABLES
    bigEndian,  \* the host's byte order
    argc,       \* 1: no argument, 2: <input>, 3: <input> <output>
    input,      \* the file argv[1] names
    output,     \* the file argv[2] names: [exists, data]
    pc,         \* where main (or copy_data) stands
    fin, fout,  \* the two FILE pointers: "null", "open" or "closed"
    finPos,     \* fin's file position
    header,     \* struct linux_efi_zboot_header header
    out,        \* what printf has written: a sequence of reports
    err,        \* what fprintf(stderr) has written: a sequence of messages
    status,     \* main's return value, "none" while it runs
    offset, len, size, buf,   \* copy_data's parameters and locals
    nSeek, nRead, nWrite      \* calls of fseek, fread, fwrite by copy_data

vars == << bigEndian, argc, input, output, pc, fin, fout, finPos, header, out,
           err, status, offset, len, size, buf, nSeek, nRead, nWrite >>

env == << bigEndian, argc, input >>
copyLocals == << offset, len, size, buf >>
counters == << nSeek, nRead, nWrite >>

\* the header before fread fills it (its storage is not read before that)
NoHeader ==
    [ msdos_magic |-> <<>>, zimg |-> <<>>, payload_offset |-> 0,
      payload_size |-> 0, compression_type |-> <<>>, linux_magic |-> <<>>,
      pe_header_offset |-> 0 ]

\* the struct laid over the 64 bytes fread stored
Overlay(b, big) ==
    [ msdos_magic      |-> SubSeq(b, 1, 2),
      zimg             |-> SubSeq(b, 5, 8),
      payload_offset   |-> NativeU32(SubSeq(b, 9, 12), big),
      payload_size     |-> NativeU32(SubSeq(b, 13, 16), big),
      compression_type |-> SubSeq(b, 25, 56),
      linux_magic      |-> SubSeq(b, 57, 60),
      pe_header_offset |-> NativeU32(SubSeq(b, 61, 64), big) ]

Init ==
    /\ bigEndian \in BOOLEAN
    /\ argc \in {1, 2, 3}
    /\ input \in Images
    /\ output = [exists |-> FALSE, data |-> <<>>]
    /\ pc = "start"
    /\ fin = "null"
    /\ fout = "null"
    /\ finPos = 0
    /\ header = NoHeader
    /\ out = <<>>
    /\ err = <<>>
    /\ status = "none"
    /\ offset = 0
    /\ len = 0
    /\ size = 0
    /\ buf = <<>>
    /\ nSeek = 0
    /\ nRead = 0
    /\ nWrite = 0

\* return from main
Exit(code) == pc' = "done" /\ status' = code

(***************************************************************************)
(* main                                                                    *)
(***************************************************************************)
\* if (argc < 2) { usage; return EXIT_FAILURE; }
CheckArgs ==
    /\ pc = "start"
    /\ \/ /\ argc < 2
          /\ err' = Append(err, "usage")
          /\ Exit("EXIT_FAILURE")
       \/ /\ argc >= 2
          /\ pc' = "open_in"
          /\ UNCHANGED << err, status >>
    /\ UNCHANGED << env, output, fin, fout, finPos, header, out, copyLocals, counters >>

\* fin = fopen(argv[1], "r"); if (!fin) return EXIT_FAILURE;
OpenInput ==
    /\ pc = "open_in"
    /\ \/ /\ fin' = "open"
          /\ pc' = "open_out"
          /\ UNCHANGED << err, status >>
       \/ /\ err' = Append(err, "open_input")
          /\ Exit("EXIT_FAILURE")
          /\ UNCHANGED fin
    /\ UNCHANGED << env, output, fout, finPos, header, out, copyLocals, counters >>

\* if (argc > 2 && !(fout = fopen(argv[2], "w"))) { fclose(fin); return EXIT_FAILURE; }
OpenOutput ==
    /\ pc = "open_out"
    /\ \/ /\ argc > 2
          /\ fout' = "open"
          /\ output' = [exists |-> TRUE, data |-> <<>>]
          /\ pc' = "read_header"
          /\ UNCHANGED << fin, err, status >>
       \/ /\ argc > 2
          /\ fin' = "closed"
          /\ err' = Append(err, "open_output")
          /\ Exit("EXIT_FAILURE")
          /\ UNCHANGED << fout, output >>
       \/ /\ argc <= 2
          /\ pc' = "read_header"
          /\ UNCHANGED << fin, fout, output, err, status >>
    /\ UNCHANGED << env, finPos, header, out, copyLocals, counters >>

\* len = fread(&header, sizeof(header), 1, fin);
\* if (len != 1) { fclose(fin); return EXIT_FAILURE; }
ReadHeader ==
    /\ pc = "read_header"
    /\ LET data == FileBytes(input)
           got == FreadBytes(data, finPos, HeaderSize)
       IN /\ finPos' = finPos + Len(got)
          /\ \/ /\ FreadOk(Avail(data, finPos), HeaderSize)
                /\ header' = Overlay(got, bigEndian)
                /\ pc' = "check_magic"
                /\ UNCHANGED << fin, err, status >>
             \/ /\ ~FreadOk(Avail(data, finPos), HeaderSize)
                /\ fin' = "closed"
                /\ err' = Append(err, "read_header")
                /\ Exit("EXIT_FAILURE")
                /\ UNCHANGED header
    /\ UNCHANGED << env, output, fout, out, copyLocals, counters >>

\* one of the three memcmp's of a header that reports every magic as right
MagicOk_anyOne(h) ==
    \/ h.msdos_magic = EFI_PE_MSDOS_MAGIC
    \/ h.zimg = ZIMG_MAGIC
    \/ h.linux_magic = EFI_PE_LINUX_MAGIC

\* the three memcmp's all return 0
MagicOk(h) ==
    /\ h.msdos_magic = EFI_PE_MSDOS_MAGIC
    /\ h.zimg = ZIMG_MAGIC
    /\ h.linux_magic = EFI_PE_LINUX_MAGIC

\* if (memcmp(...) != 0 || memcmp(...) != 0 || memcmp(...) != 0) return EXIT_FAILURE;
CheckMagic ==
    /\ pc = "check_magic"
    /\ \/ /\ ~MagicOk(header)
          /\ err' = Append(err, "not_efi_image")
          /\ Exit("EXIT_FAILURE")
       \/ /\ MagicOk(header)
          /\ pc' = "fixendian"
          /\ UNCHANGED << err, status >>
    /\ UNCHANGED << env, output, fin, fout, finPos, header, out, copyLocals, counters >>

\* the three calls of fixendian
FixEndian ==
    /\ pc = "fixendian"
    /\ header' = [header EXCEPT
                    !.payload_offset = fixendian(@, bigEndian),
                    !.payload_size = fixendian(@, bigEndian),
                    !.pe_header_offset = fixendian(@, bigEndian)]
    /\ pc' = "report"
    /\ UNCHANGED << env, output, fin, fout, finPos, out, err, status, copyLocals, counters >>

\* printf("Compression: ... Payload offset: ... Payload size: ...")
Report ==
    /\ pc = "report"
    /\ out' = Append(out, [ compression |-> Label(header.compression_type),
                            payload_offset |-> header.payload_offset,
                            payload_size |-> header.payload_size ])
    /\ pc' = "extract"
    /\ UNCHANGED << env, output, fin, fout, finPos, header, err, status, copyLocals, counters >>

\* if (fout) { copy_data(fin, fout, header.payload_offset, header.payload_size); ...
Extract ==
    /\ pc = "extract"
    /\ \/ /\ fout # "null"
          /\ offset' = header.payload_offset
          /\ len' = header.payload_size
          /\ pc' = "seek"
       \/ /\ fout = "null"
          /\ pc' = "close_in"
          /\ UNCHANGED << offset, len >>
    /\ UNCHANGED << env, output, fin, fout, finPos, header, out, err, status, size, buf, counters >>

\* ... fclose(fout); }
CloseOutput ==
    /\ pc = "close_out"
    /\ fout' = "closed"
    /\ pc' = "close_in"
    /\ UNCHANGED << env, output, fin, finPos, header, out, err, status, copyLocals, counters >>

\* fclose(fin); return EXIT_SUCCESS;
CloseInput ==
    /\ pc = "close_in"
    /\ fin' = "closed"
    /\ Exit("EXIT_SUCCESS")
    /\ UNCHANGED << env, output, fout, finPos, header, out, err, copyLocals, counters >>

(***************************************************************************)
(* copy_data                                                               *)
(***************************************************************************)
\* a copy that goes on from wherever the stream stands
SeekPos_stay(cur, off) == cur

\* where fseek(fin, offset, SEEK_SET) leaves the file position
SeekPos(cur, off) == off

\* if (fseek(fin, offset, SEEK_SET)) { message; return; }
CopySeek ==
    /\ pc = "seek"
    /\ nSeek' = nSeek + 1
    /\ \/ /\ finPos' = SeekPos(finPos, offset)
          /\ pc' = "loop"
          /\ UNCHANGED err
       \/ /\ err' = Append(err, "seek")
          /\ pc' = "close_out"
          /\ UNCHANGED finPos
    /\ UNCHANGED << env, output, fin, fout, header, out, status, copyLocals, nRead, nWrite >>

\* a loop that does not look at what remains
LoopCond_always(n) == TRUE

\* while (len)
LoopCond(n) == n # 0

\* a chunk that is always the whole buffer
ChunkSize_whole(n) == BUFSZ

\* size_t size = MIN(len, sizeof(buf));
ChunkSize(n) == MIN(n, BUFSZ)

\* while (len) { size_t size = MIN(len, sizeof(buf)); ...
CopyLoop ==
    /\ pc = "loop"
    /\ \/ /\ LoopCond(len)
          /\ size' = ChunkSize(len)
          /\ pc' = "read"
       \/ /\ ~LoopCond(len)
          /\ pc' = "close_out"
          /\ UNCHANGED size
    /\ UNCHANGED << env, output, fin, fout, finPos, header, out, err, status, offset, len, buf, counters >>

\* if (fread(buf, size, 1, fin) != 1) { message; return; }
CopyRead ==
    /\ pc = "read"
    /\ nRead' = nRead + 1
    /\ LET data == FileBytes(input)
           got == FreadBytes(data, finPos, size)
       IN /\ finPos' = finPos + Len(got)
          /\ buf' = got
          /\ \/ /\ FreadOk(Avail(data, finPos), size)
                /\ pc' = "write"
                /\ UNCHANGED err
             \/ /\ ~FreadOk(Avail(data, finPos), size)
                /\ err' = Append(err, "read_data")
                /\ pc' = "close_out"
    /\ UNCHANGED << env, output, fin, fout, header, out, status, offset, len, size, nSeek, nWrite >>

\* a copy whose failed write prints its message and goes on with the loop
CopyWrite_noReturn ==
    /\ pc = "write"
    /\ nWrite' = nWrite + 1
    /\ \/ /\ output' = [output EXCEPT !.data = @ \o SubSeq(buf, 1, size)]
          /\ len' = len - size
          /\ pc' = "loop"
          /\ UNCHANGED err
       \/ /\ \E k \in PartialCounts(size) :
                output' = [output EXCEPT !.data = @ \o SubSeq(buf, 1, k)]
          /\ err' = Append(err, "write_data")
          /\ len' = len - size
          /\ pc' = "loop"
    /\ UNCHANGED << env, fin, fout, finPos, header, out, status, offset, size, buf, nSeek, nRead >>

\* if (fwrite(buf, size, 1, fout) != 1) { message; return; }  len -= size;
CopyWrite ==
    /\ pc = "write"
    /\ nWrite' = nWrite + 1
    /\ \/ /\ output' = [output EXCEPT !.data = @ \o SubSeq(buf, 1, size)]
          /\ len' = len - size
          /\ pc' = "loop"
          /\ UNCHANGED err
       \/ /\ \E k \in PartialCounts(size) :
                output' = [output EXCEPT !.data = @ \o SubSeq(buf, 1, k)]
          /\ err' = Append(err, "write_data")
          /\ pc' = "close_out"
          /\ UNCHANGED len
    /\ UNCHANGED << env, fin, fout, finPos, header, out, status, offset, size, buf, nSeek, nRead >>

Next ==
    \/ CheckArgs
    \/ OpenInput
    \/ OpenOutput
    \/ ReadHeader
    \/ CheckMagic
    \/ FixEndian
    \/ Report
    \/ Extract
    \/ CopySeek
    \/ CopyLoop
    \/ CopyRead
    \/ CopyWrite
    \/ CloseOutput
    \/ CloseInput

Spec == Init /\ [][Next]_vars

\* the program is the only process: a step it can take, it takes
FairSpec == Spec /\ WF_vars(Next)

TypeOK ==
    /\ pc \in {"start", "open_in", "open_out", "read_header", "check_magic",
               "fixendian", "report", "extract", "seek", "loop", "read",
               "write", "close_out", "close_in", "done"}
    /\ fin \in {"null", "open", "closed"}
    /\ fout \in {"null", "open", "closed"}
    /\ status \in {"none", "EXIT_SUCCESS", "EXIT_FAILURE"}
    /\ len >= 0
    /\ Len(buf) <= BUFSZ

(***************************************************************************)
(* What the claims speak of                                                *)
(***************************************************************************)
InErr(m) == \E i \in 1..Len(err) : err[i] = m

\* main has called fread on the header
ReadAttempted ==
    /\ pc \notin {"start", "open_in", "open_out", "read_header"}
    /\ ~InErr("usage") /\ ~InErr("open_input") /\ ~InErr("open_output")

\* the header passed the magic check and was converted
Parsed ==
    \/ pc \in {"report", "extract", "seek", "loop", "read", "write",
               "close_out", "close_in"}
    \/ pc = "done" /\ status = "EXIT_SUCCESS"

\* the three magic fields of the file's first 64 bytes have their values
WireMagicOk ==
    /\ Len(input.hdr) = HeaderSize
    /\ SubSeq(input.hdr, 1, 2) = EFI_PE_MSDOS_MAGIC
    /\ SubSeq(input.hdr, 5, 8) = ZIMG_MAGIC
    /\ SubSeq(input.hdr, 57, 60) = EFI_PE_LINUX_MAGIC

WireBadMagic == Len(input.hdr) = HeaderSize /\ ~WireMagicOk

\* the little-endian values of the three words of the file's header
WireOffset == LeDecode(SubSeq(input.hdr, 9, 12))
WireSize == LeDecode(SubSeq(input.hdr, 13, 16))
WirePeOffset == LeDecode(SubSeq(input.hdr, 61, 64))

CopyCalled == pc \in {"seek", "loop", "read", "write"} \/ nSeek > 0

CopyReturned == nSeek > 0 /\ pc \in {"close_out", "close_in", "done"}

CopyFailed == InErr("seek") \/ InErr("read_data") \/ InErr("write_data")

\* source[a : a+n]
SourceRange(a, n) == SubSeq(FileBytes(input), a + 1, a + n)

CeilDiv(n, d) == (n + d - 1) \div d

(***************************************************************************)
(* C1: when copy_data returns without a failed seek or write on a source   *)
(* of at least offset+length bytes, the sink holds exactly length bytes,   *)
(* source[offset : offset+length], whatever length is against the chunk.   *)
(***************************************************************************)
C1_CopyExact ==
    ( /\ CopyReturned
      /\ ~InErr("seek") /\ ~InErr("write_data")
      /\ FileLen(input) >= header.payload_offset + header.payload_size )
    => /\ ~InErr("read_data")
       /\ Len(output.data) = header.payload_size
       /\ output.data = SourceRange(header.payload_offset, header.payload_size)

C1_Witness ==
    /\ pc = "done"
    /\ CopyReturned /\ ~CopyFailed
    /\ header.payload_size > BUFSZ
    /\ header.payload_size % BUFSZ # 0
    /\ header.payload_offset = HeaderSize + 5
    /\ output.data = SourceRange(HeaderSize + 5, header.payload_size)

(***************************************************************************)
(* C2: a header one of whose magic fields is altered is never accepted:    *)
(* main fails with "not a kernel EFI image", reports no header, never      *)
(* calls copy_data and writes no byte to the output.                       *)
(***************************************************************************)
C2_BadMagicRejected ==
    WireBadMagic =>
        /\ ~Parsed /\ pc # "fixendian"
        /\ out = <<>>
        /\ ~CopyCalled /\ nRead = 0 /\ nWrite = 0
        /\ output.data = <<>>
        /\ (pc = "done" => status = "EXIT_FAILURE")
        /\ (pc = "done" /\ ReadAttempted => InErr("not_efi_image"))

C2_Witness ==
    /\ pc = "done"
    /\ WireBadMagic
    /\ SubSeq(input.hdr, 1, 2) = <<77, 88>>
    /\ fout # "null"
    /\ InErr("not_efi_image")
    /\ status = "EXIT_FAILURE"

(***************************************************************************)
(* C3 (as claimed): a run whose copy failed (seek, short read or write)    *)
(* does not end with a success status.                                     *)
(***************************************************************************)
C3_CopyErrorIsFailure ==
    (pc = "done" /\ CopyFailed) => status # "EXIT_SUCCESS"

(***************************************************************************)
(* C4 (as claimed): the header is 60 bytes: a 60-byte input with the three *)
(* magics right is parsed, and the header read fails only on inputs of     *)
(* fewer than 60 bytes.                                                    *)
(***************************************************************************)
C4_HeaderIs60 ==
    ReadAttempted =>
        /\ (InErr("read_header") => FileLen(input) < 60)
        /\ ( ( /\ FileLen(input) = 60
               /\ SubSeq(input.hdr, 1, 2) = EFI_PE_MSDOS_MAGIC
               /\ SubSeq(input.hdr, 5, 8) = ZIMG_MAGIC
               /\ SubSeq(input.hdr, 57, 60) = EFI_PE_LINUX_MAGIC )
             => ~InErr("read_header") )

(***************************************************************************)
(* C4 (amended): the header is 64 bytes: main reads exactly 64 bytes from  *)
(* the start of the file, every input of at least 64 bytes with the three  *)
(* magics right is parsed, and the header read fails exactly when fewer    *)
(* than 64 bytes are there.                                                *)
(***************************************************************************)
C4_HeaderIs64 ==
    ReadAttempted =>
        /\ (InErr("read_header") <=> FileLen(input) < HeaderSize)
        /\ (pc = "check_magic" =>
                /\ finPos = HeaderSize
                /\ header = Overlay(SubSeq(FileBytes(input), 1, HeaderSize), bigEndian))
        /\ (FileLen(input) >= HeaderSize /\ WireMagicOk =>
                /\ err = <<>> \/ CopyFailed
                /\ (pc = "done" => Len(out) = 1))

C4_Witness ==
    /\ pc = "done"
    /\ FileLen(input) = HeaderSize
    /\ WireMagicOk
    /\ Len(out) = 1
    /\ status = "EXIT_SUCCESS"

(***************************************************************************)
(* C5: in every accepted header payload_offset, payload_size and           *)
(* pe_header_offset are b0 + 256*b1 + 65536*b2 + 16777216*b3 of their four *)
(* file bytes, on a little-endian and on a big-endian host; these are the  *)
(* values printed and the values copy_data is called with.                 *)
(***************************************************************************)
C5_LittleEndianDecode ==
    Parsed =>
        /\ header.payload_offset = WireOffset
        /\ header.payload_size = WireSize
        /\ header.pe_header_offset = WirePeOffset
        /\ LeBytes(header.payload_offset) = SubSeq(input.hdr, 9, 12)
        /\ LeBytes(header.payload_size) = SubSeq(input.hdr, 13, 16)
        /\ LeBytes(header.pe_header_offset) = SubSeq(input.hdr, 61, 64)
        /\ (out # <<>> =>
                /\ out[1].payload_offset = WireOffset
                /\ out[1].payload_size = WireSize)
        /\ (CopyCalled => offset = WireOffset)
        /\ (pc = "seek" => len = WireSize)

C5_Witness ==
    /\ bigEndian
    /\ pc = "done"
    /\ status = "EXIT_SUCCESS"
    /\ CopyReturned /\ ~CopyFailed
    /\ header.pe_header_offset = 305419896
    /\ header.payload_size = BUFSZ + 1
    /\ out[1].payload_size = BUFSZ + 1

(***************************************************************************)
(* C6 (as claimed): no run ends with a stream it opened still open.        *)
(***************************************************************************)
C6_StreamsClosedAtExit ==
    pc = "done" => fin # "open" /\ fout # "open"

(***************************************************************************)
(* C7 (as claimed): the output is opened only after the header has parsed  *)
(* and only when an output was asked for; a run that ends with a truncated *)
(* header or a wrong magic has not created the output.                     *)
(***************************************************************************)
C7_OutputOpenedAfterParse ==
    /\ (output.exists => argc > 2 /\ Parsed)
    /\ (pc = "done" /\ (InErr("read_header") \/ InErr("not_efi_image"))
            => ~output.exists)

(***************************************************************************)
(* C8: copy_data with length 0 calls neither fread nor fwrite and returns  *)
(* without an error, at every offset where the seek succeeds.              *)
(***************************************************************************)
C8_ZeroLengthNoIO ==
    (nSeek > 0 /\ ~InErr("seek") /\ header.payload_size = 0) =>
        /\ nRead = 0 /\ nWrite = 0
        /\ pc \notin {"read", "write"}
        /\ output.data = <<>>
        /\ ~CopyFailed
        /\ finPos = header.payload_offset

C8_Witness ==
    /\ pc = "done"
    /\ nSeek = 1 /\ ~InErr("seek")
    /\ header.payload_size = 0
    /\ header.payload_offset > FileLen(input)
    /\ err = <<>>

(***************************************************************************)
(* C9 (as claimed): copy_data returns at its first failure, and the sink   *)
(* then holds only whole chunks: a prefix of source[offset : offset+length]*)
(* strictly shorter than length whose size is a multiple of 16384.         *)
(***************************************************************************)
C9_SinkHoldsWholeChunks ==
    CopyFailed =>
        /\ CopyReturned
        /\ Len(err) = 1
        /\ (InErr("seek") => nRead = 0 /\ nWrite = 0)
        /\ (InErr("read_data") => nRead = nWrite + 1)
        /\ (InErr("write_data") => nRead = nWrite)
        /\ output.data = SourceRange(header.payload_offset, Len(output.data))
        /\ Len(output.data) < header.payload_size
        /\ Len(output.data) % BUFSZ = 0

(***************************************************************************)
(* C9 (amended): copy_data returns at its first failure and issues no      *)
(* fread or fwrite after it.  The sink is not rolled back and holds a      *)
(* prefix of source[offset : offset+length]: nothing after a failed seek;  *)
(* after a short read the whole chunks written before it (a multiple of    *)
(* 16384, strictly shorter than length, no byte of the partly read chunk); *)
(* after a failed write those whole chunks and whatever part of the        *)
(* failing chunk the write put out (strictly shorter than length).         *)
(***************************************************************************)
C9_AbortAtFirstFailure ==
    CopyFailed =>
        /\ CopyReturned
        /\ Len(err) = 1
        /\ output.data = SourceRange(header.payload_offset, Len(output.data))
        /\ (InErr("seek") =>
                /\ nRead = 0 /\ nWrite = 0
                /\ output.data = <<>>)
        /\ (InErr("read_data") =>
                /\ nRead = nWrite + 1
                /\ Len(output.data) = nWrite * BUFSZ
                /\ Len(output.data) < header.payload_size)
        /\ (InErr("write_data") =>
                /\ nRead = nWrite
                /\ Len(output.data) >= (nWrite - 1) * BUFSZ
                /\ Len(output.data) < (nWrite - 1) * BUFSZ + size
                /\ Len(output.data) < header.payload_size)

\* a short read in the second chunk: the first chunk stays in the sink
C9_Witness ==
    /\ pc = "done"
    /\ InErr("read_data")
    /\ nRead = 2 /\ nWrite = 1
    /\ output.data = SourceRange(header.payload_offset, BUFSZ)

(***************************************************************************)
(* C10: the loop of copy_data ends for every length: each iteration asks   *)
(* for a chunk of 1 to 16384 bytes, no more than what remains, and either  *)
(* returns or takes exactly that chunk off what remains; bytes written and *)
(* bytes remaining add up to length at the top of every iteration, and a   *)
(* copy that succeeds has made exactly ceil(length / 16384) reads and as   *)
(* many writes.                                                            *)
(***************************************************************************)
C10_LoopInvariant ==
    /\ (pc = "loop" =>
            /\ Len(output.data) + len = header.payload_size
            /\ nRead = nWrite
            /\ Len(output.data) = nWrite * BUFSZ \/ len = 0)
    /\ (pc \in {"read", "write"} =>
            /\ 1 <= size /\ size <= BUFSZ /\ size <= len
            /\ Len(output.data) + len = header.payload_size)
    /\ (CopyReturned /\ ~CopyFailed =>
            /\ len = 0
            /\ nRead = CeilDiv(header.payload_size, BUFSZ)
            /\ nWrite = CeilDiv(header.payload_size, BUFSZ))
    /\ nRead <= CeilDiv(header.payload_size, BUFSZ)
    /\ nWrite <= nRead

C10_LoopTerminates ==
    /\ []C10_LoopInvariant
    /\ [][pc = "write" /\ pc' = "loop" => len' = len - size /\ len' < len]_vars
    /\ <>(pc = "done")

C10_Witness ==
    /\ pc = "done"
    /\ CopyReturned /\ ~CopyFailed
    /\ header.payload_size = BUFSZ + 1
    /\ nRead = 2 /\ nWrite = 2
    /\ len = 0

=============================================================================
